---------------------------- MODULE Spec2Model ----------------------------
(***************************************************************************)
(* A state-machine model of newscript.py, a Streamlit dashboard over eight *)
(* Fitbit CSV exports.                                                     *)
(*                                                                         *)
(* The script is re-executed top to bottom by the Streamlit host on every  *)
(* user interaction.  One execution (a "render pass") is modelled as the   *)
(* sequence of steps                                                       *)
(*    load_data()  ->  page chrome  ->  sidebar radio  ->  one view branch *)
(* and the user / the environment act between passes.                      *)
(*                                                                         *)
(* Library semantics the script relies on:                                 *)
(*  - st.cache_data stores the pickled return value of load_data and hands *)
(*    every later caller a freshly unpickled copy; a call that raises      *)
(*    stores nothing.                                                      *)
(*  - pd.read_csv raises on a missing file, pd.to_datetime raises on a     *)
(*    cell it cannot parse; neither is caught by the script.               *)
(*  - pd.merge(how="inner") pairs every left row with every right row of   *)
(*    the same key, in left-row order.                                     *)
(*  - groupby(...).mean() yields one row per key, keys ascending.          *)
(*  - sort_values(ascending=False) orders by the key; the order of rows    *)
(*    with equal keys is not specified (quicksort).                        *)
(*                                                                         *)
(* Input domain: every file that exists has its required columns and no    *)
(* missing cells; a date cell is either parseable or not.  A date cell is  *)
(* the pair <<day, hour>> as written in the file; a timestamp is the       *)
(* number of hours since the epoch.                                        *)
(***************************************************************************)
EXTENDS Integers, Sequences, FiniteSets, TLC

VARIABLES
    fs,          \* the working directory: table name -> [exists, cols, rows]
    cached,      \* st.cache_data holds an entry for load_data()
    cacheVal,    \* the pickled tuple held by st.cache_data
    pc,          \* position of the current script run
    passes,      \* number of script runs started so far
    nextId,      \* allocator of object identities (the Python heap)
    df,          \* the script's eight module-level table variables (fresh in every run)
    menuSel,     \* widget state of the sidebar radio
    menu,        \* the script variable `menu` of this run
    hrSel,       \* widget state of the "Choose a date" selectbox (0-based index)
    hrShown,     \* the selectbox was rendered by the last finished run
    out,         \* render commands issued by this run, in order
    readLog,     \* files read by this run's load_data call, in order
    loadCalls,   \* calls of load_data made by this run
    rets,        \* history: the tuples returned by load_data, one per call that returned
    sleepWritten \* history: some finished run executed line 83

vars == <<fs, cached, cacheVal, pc, passes, nextId, df, menuSel, menu, hrSel,
          hrShown, out, readLog, loadCalls, rets, sleepWritten>>

---------------------------------------------------------------------------
(* Bounds of the model *)

MaxRows == 2
MaxDay == 2
MaxPasses == 3

---------------------------------------------------------------------------
(* The eight tables, in the order load_data reads and returns them *)

TableOrder ==
    << "daily_activity", "daily_calories", "daily_intensities", "daily_steps",
       "sleep_day", "heartrate", "hourly_steps", "weight" >>

Tables == { TableOrder[i] : i \in 1..Len(TableOrder) }

Position(t) == CHOOSE i \in 1..Len(TableOrder) : TableOrder[i] = t

DateColumn(t) ==
    CASE t = "daily_activity" -> "ActivityDate"
      [] t = "daily_calories" -> "ActivityDay"
      [] t = "daily_intensities" -> "ActivityDay"
      [] t = "daily_steps" -> "ActivityDay"
      [] t = "sleep_day" -> "SleepDay"
      [] t = "heartrate" -> "Time"
      [] t = "hourly_steps" -> "ActivityHour"
      [] t = "weight" -> "Date"

MenuOptions ==
    << "Daily Activity", "Sleep Analysis", "Hourly Patterns", "Heart Rate",
       "Weight Log" >>

Views == { MenuOptions[i] : i \in 1..Len(MenuOptions) }

---------------------------------------------------------------------------
(* Date cells and timestamps *)

HoursPerDay == 24

Parseable(cell) == cell[1] >= 1 /\ cell[2] \in 0..(HoursPerDay - 1)

to_datetime(cell) == cell[1] * HoursPerDay + cell[2]

dt_hour(ts) == ts % HoursPerDay

dt_date(ts) == ts \div HoursPerDay

BadCell == <<1, HoursPerDay>>


---------------------------------------------------------------------------
(* File contents.  A CSV file is [exists, cols, rows]: its header and its  *)
(* rows, each row a record of raw cells.  WeightKg and BMI cells are       *)
(* multiples of 0.25 and are written as the number of quarters.            *)

SeqsUpTo(S, n) == UNION { [1..k -> S] : k \in 0..n }

Days == 1..MaxDay

Header(t) ==
    CASE t = "daily_activity" -> {"ActivityDate", "TotalSteps"}
      [] t = "daily_calories" -> {"ActivityDay", "Calories"}
      [] t = "daily_intensities" -> {"ActivityDay", "SedentaryMinutes"}
      [] t = "daily_steps" -> {"ActivityDay", "StepTotal"}
      [] t = "sleep_day" -> {"SleepDay", "TotalMinutesAsleep"}
      [] t = "heartrate" -> {"Time", "Value"}
      [] t = "hourly_steps" -> {"ActivityHour", "StepTotal"}
      [] t = "weight" -> {"Date", "WeightKg", "BMI"}

BaseRows(t) ==
    CASE t = "daily_activity" -> << [ActivityDate |-> <<1, 0>>, TotalSteps |-> 100] >>
      [] t = "daily_calories" -> << [ActivityDay |-> <<1, 0>>, Calories |-> 2000] >>
      [] t = "daily_intensities" -> << [ActivityDay |-> <<1, 0>>, SedentaryMinutes |-> 700] >>
      [] t = "daily_steps" -> << [ActivityDay |-> <<1, 0>>, StepTotal |-> 100] >>
      [] t = "sleep_day" -> << [SleepDay |-> <<1, 0>>, TotalMinutesAsleep |-> 420] >>
      [] t = "heartrate" -> << [Time |-> <<1, 8>>, Value |-> 60] >>
      [] t = "hourly_steps" -> << [ActivityHour |-> <<1, 8>>, StepTotal |-> 50] >>
      [] t = "weight" -> << [Date |-> <<1, 0>>, WeightKg |-> 278, BMI |-> 88] >>

BaseFile(t) == [exists |-> TRUE, cols |-> Header(t), rows |-> BaseRows(t)]

MissingFile(t) == [exists |-> FALSE, cols |-> {}, rows |-> << >>]

CorruptFile(t) ==
    [exists |-> TRUE, cols |-> Header(t),
     rows |-> << [BaseRows(t)[1] EXCEPT ![DateColumn(t)] = BadCell] >>]

BaseFS == [t \in Tables |-> BaseFile(t)]

SleepRowValues ==
    { [SleepDay |-> <<d, 0>>, TotalMinutesAsleep |-> 420] : d \in Days }

ActivityRowValues ==
    { [ActivityDate |-> <<d, 0>>, TotalSteps |-> 100 * d] : d \in Days }

WeightRowValues ==
    { [Date |-> <<d, 0>>, WeightKg |-> wb[1], BMI |-> wb[2]] :
        d \in Days, wb \in {<<277, 88>>, <<280, 87>>} }

HeartRowValues ==
    { [Time |-> <<d, h>>, Value |-> 60 + h] : d \in Days, h \in {8, 20} }

HourlyRowValues ==
    { [ActivityHour |-> <<d, h>>, StepTotal |-> 30 * d] :
        d \in Days, h \in {0, 23} }

JoinFS ==
    { [BaseFS EXCEPT !["sleep_day"].rows = s, !["daily_activity"].rows = a] :
        s \in SeqsUpTo(SleepRowValues, MaxRows),
        a \in SeqsUpTo(ActivityRowValues, MaxRows) }

WeightFS ==
    { [BaseFS EXCEPT !["weight"].rows = w] : w \in SeqsUpTo(WeightRowValues, MaxRows) }

HeartFS ==
    { [BaseFS EXCEPT !["heartrate"].rows = h] : h \in SeqsUpTo(HeartRowValues, MaxRows) }

HourlyFS ==
    { [BaseFS EXCEPT !["hourly_steps"].rows = h] : h \in SeqsUpTo(HourlyRowValues, MaxRows) }

(* Working directories with one or two defective files *)
DefectFS ==
    { [t \in Tables |-> IF t = m THEN MissingFile(t)
                        ELSE IF t = c THEN CorruptFile(t) ELSE BaseFile(t)] :
        m \in Tables \cup {"none"}, c \in Tables \cup {"none"} }

FileSystems == JoinFS \cup WeightFS \cup HeartFS \cup HourlyFS \cup DefectFS

---------------------------------------------------------------------------
(* load_data: lines 12-34 *)

NumTables == 8

(* pd.read_csv, lines 14-21: every file is read before any date is parsed; *)
(* the first missing file raises.                                          *)
ReadOk(f) == \A t \in Tables : f[t].exists

FirstMissing(f) ==
    IF ReadOk(f) THEN NumTables + 1
    ELSE CHOOSE i \in 1..NumTables :
            /\ ~f[TableOrder[i]].exists
            /\ \A j \in 1..(i - 1) : f[TableOrder[j]].exists

FilesRead(f) == SubSeq(TableOrder, 1, FirstMissing(f) - 1)

read_csv(f, t) == [cols |-> f[t].cols, rows |-> f[t].rows]

(* pd.to_datetime, lines 24-31: raises on the first cell it cannot parse *)
ColumnParses(f, t) ==
    \A i \in 1..Len(f[t].rows) : Parseable(f[t].rows[i][DateColumn(t)])

ConvertOk(f) == \A t \in Tables : ColumnParses(f, t)

ConvertDates(t, frame) ==
    [frame EXCEPT !.rows =
        [i \in 1..Len(frame.rows) |->
            [frame.rows[i] EXCEPT ![DateColumn(t)] = to_datetime(@)]]]

LoadSucceeds(f) == ReadOk(f) /\ ConvertOk(f)

(* The tuple load_data returns on a successful run, without identities *)
Loaded(f) == [t \in Tables |-> ConvertDates(t, read_csv(f, t))]

(* st.cache_data, line 12 *)
Pickle(frame) == [cols |-> frame.cols, rows |-> frame.rows]

Unpickle(bytes, id) == [id |-> id, cols |-> bytes.cols, rows |-> bytes.rows]

EmptyCache == [t \in Tables |-> [cols |-> {}, rows |-> << >>]]

Unbound == [t \in Tables |-> [id |-> 0, cols |-> {}, rows |-> << >>]]

(* variant: the decorator never finds its entry *)
MemoHit_Never == FALSE

MemoHit == cached

(* variant: a hit returns the stored object itself, as st.cache_resource does *)
HitFrame_Shared(t) == rets[Len(rets)][t]

(* On a hit every caller gets a copy of its own: a new object per table *)
HitFrame(t) == Unpickle(cacheVal[t], nextId + Position(t))

MissFrame(t) ==
    [id |-> nextId + Position(t), cols |-> Loaded(fs)[t].cols, rows |-> Loaded(fs)[t].rows]


---------------------------------------------------------------------------
(* Render commands handed to the Streamlit host.  `data` is always a       *)
(* sequence: the rows plotted, the options offered or the text shown.      *)

Cmd(view, kind, name, data) == [view |-> view, kind |-> kind, name |-> name, data |-> data]

Page == "page"

---------------------------------------------------------------------------
(* Table helpers *)

Range(s) == { s[i] : i \in 1..Len(s) }

Column(rows, c) == [i \in 1..Len(rows) |-> rows[i][c]]

RECURSIVE SortedSeq(_)
SortedSeq(S) ==
    IF S = {} THEN << >>
    ELSE LET m == CHOOSE x \in S : \A y \in S : x <= y
         IN  <<m>> \o SortedSeq(S \ {m})

RECURSIVE SumOf(_)
SumOf(s) == IF s = << >> THEN 0 ELSE Head(s) + SumOf(Tail(s))

(* Series.unique(): the distinct values in order of first appearance *)
RECURSIVE unique(_)
unique(s) ==
    IF s = << >> THEN << >>
    ELSE LET front == unique(SubSeq(s, 1, Len(s) - 1))
             last == s[Len(s)]
         IN  IF last \in Range(front) THEN front ELSE Append(front, last)

---------------------------------------------------------------------------
(* Sleep Analysis, lines 83 and 89-90 *)

MinutesPerHour == 60

(* x / 60 as the exact quotient *)
SleepHoursOf(minutes) == [num |-> minutes, den |-> MinutesPerHour]

(* variant: the hours overwrite the loaded TotalMinutesAsleep column *)
AddSleepHours_InPlace(frame) ==
    [frame EXCEPT
        !.rows = [i \in 1..Len(frame.rows) |->
                    [frame.rows[i] EXCEPT
                        !["TotalMinutesAsleep"] = @ \div MinutesPerHour]]]

AddSleepHours(frame) ==
    [frame EXCEPT
        !.cols = @ \cup {"SleepHours"},
        !.rows = [i \in 1..Len(frame.rows) |->
                    [c \in DOMAIN frame.rows[i] \cup {"SleepHours"} |->
                        IF c = "SleepHours"
                        THEN SleepHoursOf(frame.rows[i]["TotalMinutesAsleep"])
                        ELSE frame.rows[i][c]]]]

(* variant: every pair of rows is joined *)
JoinKeyMatches_Any(l, r) == TRUE

JoinKeyMatches(l, r) == l["SleepDay"] = r["ActivityDate"]

JoinRow(l, r) == [c \in DOMAIN l \cup DOMAIN r |-> IF c \in DOMAIN l THEN l[c] ELSE r[c]]

RECURSIVE MatchesOf(_, _)
MatchesOf(l, right) ==
    IF right = << >> THEN << >>
    ELSE IF JoinKeyMatches(l, Head(right))
         THEN <<JoinRow(l, Head(right))>> \o MatchesOf(l, Tail(right))
         ELSE MatchesOf(l, Tail(right))

(* pd.merge(left, right, how="inner"): each left row with each right row *)
(* of the same key                                                       *)
RECURSIVE merge(_, _)
merge(left, right) ==
    IF left = << >> THEN << >>
    ELSE MatchesOf(Head(left), right) \o merge(Tail(left), right)

---------------------------------------------------------------------------
(* Hourly Patterns, lines 101-102 *)

AddHour(frame) ==
    [frame EXCEPT
        !.cols = @ \cup {"Hour"},
        !.rows = [i \in 1..Len(frame.rows) |->
                    [c \in DOMAIN frame.rows[i] \cup {"Hour"} |->
                        IF c = "Hour" THEN dt_hour(frame.rows[i]["ActivityHour"])
                        ELSE frame.rows[i][c]]]]

RECURSIVE GroupOf(_, _)
GroupOf(rows, h) ==
    IF rows = << >> THEN << >>
    ELSE IF Head(rows)["Hour"] = h THEN <<Head(rows)>> \o GroupOf(Tail(rows), h)
    ELSE GroupOf(Tail(rows), h)

(* variant: the sum is not divided by the count *)
MeanOf_Sum(values) == [num |-> SumOf(values), den |-> 1]

(* the mean as the exact quotient sum / count *)
MeanOf(values) == [num |-> SumOf(values), den |-> Len(values)]

GroupKeys(rows) == SortedSeq(Range(Column(rows, "Hour")))

(* groupby("Hour")["StepTotal"].mean().reset_index() *)
groupby_mean(rows) ==
    [k \in 1..Len(GroupKeys(rows)) |->
        [Hour |-> GroupKeys(rows)[k],
         StepTotal |-> MeanOf(Column(GroupOf(rows, GroupKeys(rows)[k]), "StepTotal"))]]

---------------------------------------------------------------------------
(* Heart Rate, lines 114-117 *)

available_dates(rows) ==
    unique([i \in 1..Len(rows) |-> dt_date(rows[i]["Time"])])

(* st.selectbox: the option at the widget's index; None (the empty        *)
(* sequence here) when there is no option                                 *)
selectbox(options, index) ==
    IF options = << >> THEN << >> ELSE <<options[index + 1]>>

(* variant: the timestamp, not its date, is compared *)
OnSelectedDate_Timestamp(row, selected) == <<row["Time"]>> = selected

OnSelectedDate(row, selected) == <<dt_date(row["Time"])>> = selected

(* heartrate[heartrate["Time"].dt.date == selected_date] *)
RECURSIVE hr_day(_, _)
hr_day(rows, selected) ==
    IF rows = << >> THEN << >>
    ELSE IF OnSelectedDate(Head(rows), selected)
         THEN <<Head(rows)>> \o hr_day(Tail(rows), selected)
         ELSE hr_day(Tail(rows), selected)

---------------------------------------------------------------------------
(* Weight Log, lines 129 and 143-145 *)

(* variant: a one-row table counts as empty *)
IsEmpty_AtMostOne(frame) == Len(frame.rows) <= 1

IsEmpty(frame) == Len(frame.rows) = 0

Orderings(n) ==
    { p \in [1..n -> 1..n] : \A i, j \in 1..n : i # j => p[i] # p[j] }

(* variant: ascending order *)
InSortOrder_Ascending(a, b) == a["Date"] <= b["Date"]

InSortOrder(a, b) == a["Date"] >= b["Date"]

(* sort_values("Date", ascending=False): every ordering of the rows that  *)
(* is descending by Date (rows of equal Date in any order)                *)
sort_values(rows) ==
    { [i \in 1..Len(rows) |-> rows[p[i]]] : p \in
        { q \in Orderings(Len(rows)) :
            \A i, j \in 1..Len(rows) : i < j => InSortOrder(rows[q[i]], rows[q[j]]) } }

(* f"{x:.1f}" of x = quarters / 4: the number of tenths shown, ties to even *)
Format1(quarters) ==
    LET n == quarters * 10
        fl == n \div 4
        r == n % 4
    IN  IF r < 2 THEN fl
        ELSE IF r > 2 THEN fl + 1
        ELSE IF fl % 2 = 0 THEN fl ELSE fl + 1


---------------------------------------------------------------------------
(* The state after the host has started the process: nothing cached, the   *)
(* widgets at their defaults, the first script run about to begin.         *)

Init ==
    /\ fs \in FileSystems
    /\ cached = FALSE
    /\ cacheVal = EmptyCache
    /\ pc = "start"
    /\ passes = 1
    /\ nextId = 0
    /\ df = Unbound
    /\ menuSel = MenuOptions[1]
    /\ menu = ""
    /\ hrSel = 0
    /\ hrShown = FALSE
    /\ out = << >>
    /\ readLog = << >>
    /\ loadCalls = 0
    /\ rets = << >>
    /\ sleepWritten = FALSE

---------------------------------------------------------------------------
(* The host and the user: every interaction re-executes the script *)

StartRun ==
    /\ passes < MaxPasses
    /\ passes' = passes + 1
    /\ pc' = "start"
    /\ menu' = ""
    /\ out' = << >>
    /\ readLog' = << >>
    /\ loadCalls' = 0
    /\ df' = Unbound
    /\ UNCHANGED <<fs, cached, cacheVal, nextId, rets, sleepWritten>>

(* a rerun without a widget change *)
Rerun ==
    /\ pc \in {"done", "failed"}
    /\ StartRun
    /\ UNCHANGED <<menuSel, hrSel, hrShown>>

(* the user picks another option of the sidebar radio *)
SelectMenu(m) ==
    /\ pc = "done"
    /\ m # menuSel
    /\ menuSel' = m
    /\ StartRun
    /\ UNCHANGED <<hrSel, hrShown>>

ShownOptions ==
    LET boxes == { i \in 1..Len(out) : out[i].kind = "selectbox" }
    IN  IF boxes = {} THEN << >> ELSE out[CHOOSE i \in boxes : TRUE].data

(* the user picks another date of the "Choose a date" selectbox *)
SelectDate(i) ==
    /\ pc = "done"
    /\ hrShown
    /\ i \in 0..(Len(ShownOptions) - 1)
    /\ i # hrSel
    /\ hrSel' = i
    /\ StartRun
    /\ UNCHANGED <<menuSel, hrShown>>

(* the environment repairs the working directory: a missing file, or one  *)
(* with an unparseable date cell, is replaced by a well-formed one        *)
RepairFile(t) ==
    /\ pc \in {"done", "failed"}
    /\ ~fs[t].exists \/ ~ColumnParses(fs, t)
    /\ fs' = [fs EXCEPT ![t] = BaseFile(t)]
    /\ UNCHANGED <<cached, cacheVal, pc, passes, nextId, df, menuSel, menu, hrSel,
                   hrShown, out, readLog, loadCalls, rets, sleepWritten>>

---------------------------------------------------------------------------
(* Line 38: load_data() under st.cache_data *)

load_data_hit ==
    /\ pc = "start"
    /\ MemoHit
    /\ df' = [t \in Tables |-> HitFrame(t)]
    /\ nextId' = nextId + NumTables
    /\ rets' = Append(rets, df')
    /\ loadCalls' = loadCalls + 1
    /\ pc' = "loaded"
    /\ UNCHANGED <<fs, cached, cacheVal, passes, menuSel, menu, hrSel, hrShown,
                   out, readLog, sleepWritten>>

load_data_miss ==
    /\ pc = "start"
    /\ ~MemoHit
    /\ LoadSucceeds(fs)
    /\ readLog' = FilesRead(fs)
    /\ df' = [t \in Tables |-> MissFrame(t)]
    /\ nextId' = nextId + NumTables
    /\ cached' = TRUE
    /\ cacheVal' = [t \in Tables |-> Pickle(df'[t])]
    /\ rets' = Append(rets, df')
    /\ loadCalls' = loadCalls + 1
    /\ pc' = "loaded"
    /\ UNCHANGED <<fs, passes, menuSel, menu, hrSel, hrShown, out, sleepWritten>>

(* variant: the exception is swallowed and the script goes on *)
load_data_raise_Swallowed ==
    /\ pc = "start"
    /\ ~MemoHit
    /\ ~LoadSucceeds(fs)
    /\ readLog' = FilesRead(fs)
    /\ nextId' = nextId + Len(FilesRead(fs))
    /\ loadCalls' = loadCalls + 1
    /\ pc' = "loaded"
    /\ UNCHANGED <<fs, cached, cacheVal, passes, df, menuSel, menu, hrSel, hrShown,
                   out, rets, sleepWritten>>

(* the exception leaves load_data and the script: the run ends here *)
load_data_raise ==
    /\ pc = "start"
    /\ ~MemoHit
    /\ ~LoadSucceeds(fs)
    /\ readLog' = FilesRead(fs)
    /\ nextId' = nextId + Len(FilesRead(fs))
    /\ loadCalls' = loadCalls + 1
    /\ pc' = "failed"
    /\ UNCHANGED <<fs, cached, cacheVal, passes, df, menuSel, menu, hrSel, hrShown,
                   out, rets, sleepWritten>>

---------------------------------------------------------------------------
(* Lines 43-52: page chrome and the sidebar radio *)

PageChrome ==
    /\ pc = "loaded"
    /\ out' = out \o << Cmd(Page, "title", "Strava Fitness Dashboard", << >>),
                        Cmd(Page, "markdown", "intro", << >>) >>
    /\ pc' = "chrome"
    /\ UNCHANGED <<fs, cached, cacheVal, passes, nextId, df, menuSel, menu, hrSel,
                   hrShown, readLog, loadCalls, rets, sleepWritten>>

(* variant: the radio's return value is not the widget's selection *)
radio_IgnoresSelection ==
    /\ pc = "chrome"
    /\ menu' = MenuOptions[1]
    /\ out' = Append(out, Cmd(Page, "radio", "Select Analysis", MenuOptions))
    /\ pc' = "dispatch"
    /\ UNCHANGED <<fs, cached, cacheVal, passes, nextId, df, menuSel, hrSel,
                   hrShown, readLog, loadCalls, rets, sleepWritten>>

radio ==
    /\ pc = "chrome"
    /\ menu' = menuSel
    /\ out' = Append(out, Cmd(Page, "radio", "Select Analysis", MenuOptions))
    /\ pc' = "dispatch"
    /\ UNCHANGED <<fs, cached, cacheVal, passes, nextId, df, menuSel, hrSel,
                   hrShown, readLog, loadCalls, rets, sleepWritten>>

---------------------------------------------------------------------------
(* Lines 57-145: the if / elif chain over `menu` *)

Selected(view) == menu = view

(* a run that does not render the selectbox drops its widget state *)
DropSelectbox == hrShown' = FALSE /\ hrSel' = 0

DailyActivity ==
    /\ pc = "dispatch"
    /\ Selected("Daily Activity")
    /\ out' = out \o
         << Cmd("Daily Activity", "header", "Daily Activity Overview", << >>),
            Cmd("Daily Activity", "plotly_chart", "fig1", df["daily_activity"].rows),
            Cmd("Daily Activity", "plotly_chart", "fig2", df["daily_activity"].rows),
            Cmd("Daily Activity", "subheader", "Correlation between Activity Metrics", << >>),
            Cmd("Daily Activity", "dataframe", "corr", << >>) >>
    /\ DropSelectbox
    /\ pc' = "done"
    /\ UNCHANGED <<fs, cached, cacheVal, passes, nextId, df, menuSel, menu,
                   readLog, loadCalls, rets, sleepWritten>>

SleepAnalysis ==
    /\ pc = "dispatch"
    /\ Selected("Sleep Analysis")
    /\ LET sleep_day == AddSleepHours(df["sleep_day"])
           merged == merge(sleep_day.rows, df["daily_activity"].rows)
       IN  /\ df' = [df EXCEPT !["sleep_day"] = sleep_day]
           /\ out' = out \o
                << Cmd("Sleep Analysis", "header", "Sleep Patterns", << >>),
                   Cmd("Sleep Analysis", "plotly_chart", "fig3", sleep_day.rows),
                   Cmd("Sleep Analysis", "plotly_chart", "fig4", merged) >>
    /\ sleepWritten' = TRUE
    /\ DropSelectbox
    /\ pc' = "done"
    /\ UNCHANGED <<fs, cached, cacheVal, passes, nextId, menuSel, menu,
                   readLog, loadCalls, rets>>

HourlyPatterns ==
    /\ pc = "dispatch"
    /\ Selected("Hourly Patterns")
    /\ LET hourly_steps == AddHour(df["hourly_steps"])
           avg_steps == groupby_mean(hourly_steps.rows)
       IN  /\ df' = [df EXCEPT !["hourly_steps"] = hourly_steps]
           /\ out' = out \o
                << Cmd("Hourly Patterns", "header", "Hourly Activity Trends", << >>),
                   Cmd("Hourly Patterns", "plotly_chart", "fig5", avg_steps) >>
    /\ DropSelectbox
    /\ pc' = "done"
    /\ UNCHANGED <<fs, cached, cacheVal, passes, nextId, menuSel, menu,
                   readLog, loadCalls, rets, sleepWritten>>

HeartRate ==
    /\ pc = "dispatch"
    /\ Selected("Heart Rate")
    /\ LET dates == available_dates(df["heartrate"].rows)
           selected_date == selectbox(dates, hrSel)
       IN  out' = out \o
                << Cmd("Heart Rate", "header", "Heart Rate Analysis", << >>),
                   Cmd("Heart Rate", "selectbox", "Choose a date", dates),
                   Cmd("Heart Rate", "plotly_chart", "fig6",
                       hr_day(df["heartrate"].rows, selected_date)) >>
    /\ hrShown' = TRUE
    /\ pc' = "done"
    /\ UNCHANGED <<fs, cached, cacheVal, passes, nextId, df, menuSel, menu, hrSel,
                   readLog, loadCalls, rets, sleepWritten>>

WeightLog ==
    /\ pc = "dispatch"
    /\ Selected("Weight Log")
    /\ \/ /\ IsEmpty(df["weight"])
          /\ out' = out \o
               << Cmd("Weight Log", "header", "Weight & BMI Trends", << >>),
                  Cmd("Weight Log", "warning", "No weight log data available.", << >>) >>
       \/ /\ ~IsEmpty(df["weight"])
          /\ \E sorted \in sort_values(df["weight"].rows) :
               LET latest_weight == sorted[1]
               IN  out' = out \o
                     << Cmd("Weight Log", "header", "Weight & BMI Trends", << >>),
                        Cmd("Weight Log", "plotly_chart", "fig7", df["weight"].rows),
                        Cmd("Weight Log", "plotly_chart", "fig8", df["weight"].rows),
                        Cmd("Weight Log", "metric", "Latest Weight (kg)",
                            <<Format1(latest_weight["WeightKg"])>>),
                        Cmd("Weight Log", "metric", "Latest BMI",
                            <<Format1(latest_weight["BMI"])>>) >>
    /\ DropSelectbox
    /\ pc' = "done"
    /\ UNCHANGED <<fs, cached, cacheVal, passes, nextId, df, menuSel, menu,
                   readLog, loadCalls, rets, sleepWritten>>

---------------------------------------------------------------------------

Next ==
    \/ Rerun
    \/ \E m \in Views : SelectMenu(m)
    \/ \E i \in 0..(MaxRows - 1) : SelectDate(i)
    \/ \E t \in Tables : RepairFile(t)
    \/ load_data_hit
    \/ load_data_miss
    \/ load_data_raise
    \/ PageChrome
    \/ radio
    \/ DailyActivity
    \/ SleepAnalysis
    \/ HourlyPatterns
    \/ HeartRate
    \/ WeightLog

Spec == Init /\ [][Next]_vars


---------------------------------------------------------------------------
(* Vocabulary of the properties *)

InPass == pc \in {"loaded", "chrome", "dispatch", "done"}

Content(frame) == [cols |-> frame.cols, rows |-> frame.rows]

LastRet == rets[Len(rets)]

ViewsRun == { out[i].view : i \in 1..Len(out) } \ {Page}

CountKind(view, kind) ==
    Cardinality({ i \in 1..Len(out) : out[i].view = view /\ out[i].kind = kind })

Issued(name) == \E i \in 1..Len(out) : out[i].name = name

DataOf(name) == out[CHOOSE i \in 1..Len(out) : out[i].name = name].data

NoRepeat(s) == \A i, j \in 1..Len(s) : i # j => s[i] # s[j]

Min(a, b) == IF a <= b THEN a ELSE b

RECURSIVE SumOver(_, _, _)
SumOver(rows, idx, c) ==
    IF idx = {} THEN 0
    ELSE LET i == CHOOSE x \in idx : TRUE
         IN  rows[i][c] + SumOver(rows, idx \ {i}, c)

---------------------------------------------------------------------------
(* C1 as stated: a run's load_data call reads input files only if it is   *)
(* the first call that succeeds.                                          *)
C1_ReadsOnlyInFirstSuccess ==
    readLog # << >> => (pc # "failed" /\ Len(rets) = 1)

(* C1, amended: input files are read only by calls up to and including    *)
(* the first successful one (a call that raises has read the files before *)
(* the failing one and caches nothing); every later call reads no file    *)
(* and returns the content the first successful call loaded.              *)
C1_ReadsStopAtFirstSuccess ==
    /\ readLog # << >> =>
          \/ pc = "failed" /\ rets = << >> /\ ~cached
          \/ pc # "failed" /\ Len(rets) = 1 /\ readLog = TableOrder
    /\ Len(rets) >= 1 => cached
    /\ \A k \in 1..Len(rets) : \A t \in Tables : Content(rets[k][t]) = cacheVal[t]
    /\ (Len(rets) >= 2 /\ InPass) => readLog = << >>

(* a first call failed, the file was repaired, the second call read the   *)
(* files and the third returned from the cache                            *)
C1_Witness ==
    /\ pc = "loaded"
    /\ passes >= 3
    /\ Len(rets) = 2
    /\ readLog = << >>
    /\ fs = BaseFS

---------------------------------------------------------------------------
(* C2 as stated: any two calls of load_data return, for each table, the   *)
(* very same object.                                                      *)
C2_SameObjects ==
    \A i, j \in 1..Len(rets) : \A t \in Tables : rets[i][t].id = rets[j][t].id

(* C2, amended: any two calls of load_data return, for each table, tables *)
(* of equal content that are distinct objects (every call after the first *)
(* returns a fresh copy of the cached table).                             *)
C2_EqualCopies ==
    \A i, j \in 1..Len(rets) : \A t \in Tables :
        i # j => /\ Content(rets[i][t]) = Content(rets[j][t])
                 /\ rets[i][t].id # rets[j][t].id

C2_Witness ==
    /\ Len(rets) >= 2
    /\ pc = "loaded"
    /\ \A t \in Tables : Len(LastRet[t].rows) >= 1

---------------------------------------------------------------------------
(* C3: in a finished pass the render commands of view renderers all come  *)
(* from the renderer of the current selection, which did run; only that   *)
(* renderer's derived column was written; before the dispatch no renderer *)
(* has acted.                                                             *)
C3_OnlySelectedViewRuns ==
    /\ pc = "done" =>
          /\ ViewsRun = {menuSel}
          /\ menuSel \in Views
          /\ \A t \in Tables : df[t] # LastRet[t] =>
                \/ t = "sleep_day" /\ menuSel = "Sleep Analysis"
                \/ t = "hourly_steps" /\ menuSel = "Hourly Patterns"
    /\ pc \in {"loaded", "chrome", "dispatch"} => (ViewsRun = {} /\ df = LastRet)
    /\ pc \in {"start", "failed"} => ViewsRun = {}

C3_Witness ==
    /\ pc = "done"
    /\ passes >= 2
    /\ menuSel = "Hourly Patterns"
    /\ ViewsRun = {"Hourly Patterns"}
    /\ df["hourly_steps"] # LastRet["hourly_steps"]
    /\ df["sleep_day"] = LastRet["sleep_day"]

---------------------------------------------------------------------------
(* C4: a run whose load_data call cannot succeed (nothing cached and a    *)
(* file missing or a date cell unparseable) ends at that call with        *)
(* nothing rendered, the radio not evaluated and nothing cached; the      *)
(* ended run takes no further step, the call is made once, and only a new *)
(* run follows.                                                           *)
C4_LoadFailureHaltsPass ==
    [][ /\ (pc = "start" /\ ~cached /\ ~LoadSucceeds(fs)) =>
              /\ pc' = "failed"
              /\ out' = << >>
              /\ menu' = ""
              /\ loadCalls' = 1
              /\ cached' = FALSE
              /\ rets' = rets
        /\ pc = "failed" =>
              \/ pc' = "failed" /\ out' = out /\ menu' = menu /\ loadCalls' = loadCalls
              \/ pc' = "start" /\ passes' = passes + 1 /\ loadCalls' = 0 ]_vars

(* a rerun over an unparseable date cell has failed again *)
C4_Witness ==
    /\ pc = "failed"
    /\ passes >= 2
    /\ ReadOk(fs)
    /\ ~ConvertOk(fs)
    /\ readLog = TableOrder
    /\ out = << >>

---------------------------------------------------------------------------
(* C5: a finished Weight Log pass over an empty table has issued the      *)
(* warning and no chart and no metric (nothing but its section header and *)
(* the warning); over a non-empty table it has issued no warning, two     *)
(* charts and two metrics.                                                *)
C5_WeightLogBranches ==
    (pc = "done" /\ menuSel = "Weight Log") =>
        IF Len(cacheVal["weight"].rows) = 0
        THEN /\ CountKind("Weight Log", "warning") = 1
             /\ CountKind("Weight Log", "plotly_chart") = 0
             /\ CountKind("Weight Log", "metric") = 0
             /\ \A i \in 1..Len(out) :
                   out[i].view = "Weight Log" => out[i].kind \in {"header", "warning"}
        ELSE /\ CountKind("Weight Log", "warning") = 0
             /\ CountKind("Weight Log", "plotly_chart") = 2
             /\ CountKind("Weight Log", "metric") = 2
             /\ Issued("fig7") /\ Issued("fig8")
             /\ Issued("Latest Weight (kg)") /\ Issued("Latest BMI")

C5_Witness ==
    /\ pc = "done"
    /\ menuSel = "Weight Log"
    /\ Len(cacheVal["weight"].rows) = 0
    /\ Issued("No weight log data available.")


---------------------------------------------------------------------------
(* The tables as loaded, and what a finished pass has plotted *)

SleepRows == cacheVal["sleep_day"].rows

ActivityRows == cacheVal["daily_activity"].rows

WeightRows == cacheVal["weight"].rows

HeartRows == cacheVal["heartrate"].rows

HourlyRows == cacheVal["hourly_steps"].rows

JoinPairs ==
    { ij \in (1..Len(SleepRows)) \X (1..Len(ActivityRows)) :
        SleepRows[ij[1]]["SleepDay"] = ActivityRows[ij[2]]["ActivityDate"] }

KeysAgree(merged) ==
    \A k \in 1..Len(merged) : merged[k]["SleepDay"] = merged[k]["ActivityDate"]

(* C6 as stated: the join has at most min(|Sleep Day|, |Daily Activity|)  *)
(* rows and every row's SleepDay equals its ActivityDate.                 *)
C6_JoinAtMostMin ==
    (pc = "done" /\ menuSel = "Sleep Analysis") =>
        /\ Len(DataOf("fig4")) <= Min(Len(SleepRows), Len(ActivityRows))
        /\ KeysAgree(DataOf("fig4"))

(* C6, amended: the join has one row for every pair of a Sleep Day row    *)
(* and a Daily Activity row with SleepDay = ActivityDate, hence at most   *)
(* |Sleep Day| * |Daily Activity| rows, and at most min of the two sizes  *)
(* when no date occurs in several rows of either table; every row's       *)
(* SleepDay equals its ActivityDate.                                      *)
C6_JoinPairsOfEqualDate ==
    (pc = "done" /\ menuSel = "Sleep Analysis") =>
        /\ Len(DataOf("fig4")) = Cardinality(JoinPairs)
        /\ Len(DataOf("fig4")) <= Len(SleepRows) * Len(ActivityRows)
        /\ KeysAgree(DataOf("fig4"))
        /\ (NoRepeat(Column(SleepRows, "SleepDay"))
              /\ NoRepeat(Column(ActivityRows, "ActivityDate")))
           => Len(DataOf("fig4")) <= Min(Len(SleepRows), Len(ActivityRows))

(* a date occurring twice on both sides yields four rows *)
C6_Witness ==
    /\ pc = "done"
    /\ menuSel = "Sleep Analysis"
    /\ Len(SleepRows) = 2
    /\ Len(ActivityRows) = 2
    /\ Len(DataOf("fig4")) = 4
    /\ KeysAgree(DataOf("fig4"))

---------------------------------------------------------------------------
(* C7: in a finished Weight Log pass over a non-empty table the two       *)
(* metrics show the formatted WeightKg and BMI of one row of the table    *)
(* whose Date no other row exceeds, whatever the row order.               *)
C7_LatestWeightRow ==
    (pc = "done" /\ menuSel = "Weight Log" /\ Len(WeightRows) > 0) =>
        \E i \in 1..Len(WeightRows) :
            /\ \A j \in 1..Len(WeightRows) : WeightRows[j]["Date"] <= WeightRows[i]["Date"]
            /\ DataOf("Latest Weight (kg)") = <<Format1(WeightRows[i]["WeightKg"])>>
            /\ DataOf("Latest BMI") = <<Format1(WeightRows[i]["BMI"])>>

(* the latest row is the last row of the file and differs from the first *)
C7_Witness ==
    /\ pc = "done"
    /\ menuSel = "Weight Log"
    /\ Len(WeightRows) = 2
    /\ WeightRows[1]["Date"] < WeightRows[2]["Date"]
    /\ WeightRows[1]["WeightKg"] # WeightRows[2]["WeightKg"]
    /\ DataOf("Latest Weight (kg)") = <<Format1(WeightRows[2]["WeightKg"])>>
    /\ DataOf("Latest BMI") = <<Format1(WeightRows[2]["BMI"])>>

---------------------------------------------------------------------------
DatesPresent == { dt_date(HeartRows[i]["Time"]) : i \in 1..Len(HeartRows) }

RowsOn(d) == { i \in 1..Len(HeartRows) : dt_date(HeartRows[i]["Time"]) = d }

IsSubsetOn(chart, d) ==
    LET OnDate(r) == dt_date(r["Time"]) = d
    IN  chart = SelectSeq(HeartRows, OnDate)

(* C8: in a finished Heart Rate pass the selector offers each date that   *)
(* occurs in Time once and nothing else, and the plotted subset is, for   *)
(* the date selected, non-empty and exactly the rows of that date.        *)
C8_HeartRateFilter ==
    (pc = "done" /\ menuSel = "Heart Rate") =>
        /\ Range(DataOf("Choose a date")) = DatesPresent
        /\ NoRepeat(DataOf("Choose a date"))
        /\ DataOf("Choose a date") # << >> =>
              LET d == DataOf("Choose a date")[hrSel + 1]
              IN  /\ DataOf("fig6") # << >>
                  /\ Len(DataOf("fig6")) = Cardinality(RowsOn(d))
                  /\ IsSubsetOn(DataOf("fig6"), d)

(* the second date offered is selected, and rows of another date are left out *)
C8_Witness ==
    /\ pc = "done"
    /\ menuSel = "Heart Rate"
    /\ hrSel = 1
    /\ Len(DataOf("Choose a date")) = 2
    /\ Len(DataOf("fig6")) = 1
    /\ Len(HeartRows) = 2

---------------------------------------------------------------------------
HoursPresent == { dt_hour(HourlyRows[i]["ActivityHour"]) : i \in 1..Len(HourlyRows) }

RowsAt(h) == { i \in 1..Len(HourlyRows) : dt_hour(HourlyRows[i]["ActivityHour"]) = h }

(* C9: in a finished Hourly Patterns pass there is one bucket per hour of *)
(* day occurring in ActivityHour, in strictly increasing hour order, and  *)
(* each bucket's value is sum / count of StepTotal over the rows of that  *)
(* hour, which lies between their least and greatest StepTotal.           *)
C9_HourlyMean ==
    (pc = "done" /\ menuSel = "Hourly Patterns") =>
        LET avg_steps == DataOf("fig5")
        IN  /\ { avg_steps[k]["Hour"] : k \in 1..Len(avg_steps) } = HoursPresent
            /\ Len(avg_steps) = Cardinality(HoursPresent)
            /\ \A k, l \in 1..Len(avg_steps) :
                  k < l => avg_steps[k]["Hour"] < avg_steps[l]["Hour"]
            /\ \A k \in 1..Len(avg_steps) :
                  LET idx == RowsAt(avg_steps[k]["Hour"])
                      mean == avg_steps[k]["StepTotal"]
                  IN  /\ mean.den = Cardinality(idx)
                      /\ mean.num = SumOver(HourlyRows, idx, "StepTotal")
                      /\ \E i \in idx : HourlyRows[i]["StepTotal"] * mean.den <= mean.num
                      /\ \E i \in idx : HourlyRows[i]["StepTotal"] * mean.den >= mean.num
                      /\ \A lo, hi \in idx :
                            (/\ \A i \in idx : HourlyRows[lo]["StepTotal"] <= HourlyRows[i]["StepTotal"]
                             /\ \A i \in idx : HourlyRows[i]["StepTotal"] <= HourlyRows[hi]["StepTotal"])
                            => /\ HourlyRows[lo]["StepTotal"] * mean.den <= mean.num
                               /\ mean.num <= HourlyRows[hi]["StepTotal"] * mean.den

(* a later hour precedes an earlier one in the file; two rows share an hour *)
C9_Witness ==
    /\ pc = "done"
    /\ menuSel = "Hourly Patterns"
    /\ Len(HourlyRows) = 2
    /\ dt_hour(HourlyRows[1]["ActivityHour"]) > dt_hour(HourlyRows[2]["ActivityHour"])
    /\ Len(DataOf("fig5")) = 2
    /\ DataOf("fig5")[1]["Hour"] = 0

---------------------------------------------------------------------------
DerivedColumns(t) ==
    IF t = "sleep_day" THEN {"SleepHours"}
    ELSE IF t = "hourly_steps" THEN {"Hour"} ELSE {}

LoadedPart(frame, t) ==
    [cols |-> frame.cols \cap cacheVal[t].cols,
     rows |-> [i \in 1..Len(frame.rows) |->
                 [c \in DOMAIN frame.rows[i] \cap cacheVal[t].cols |-> frame.rows[i][c]]]]

(* the loaded rows and columns are unchanged, in the cache and in the     *)
(* tables of the run; the only columns ever added are SleepHours (by a    *)
(* Sleep Analysis pass) and Hour (by an Hourly Patterns pass)             *)
C10_Frame ==
    /\ \A k \in 1..Len(rets) : \A t \in Tables : Content(rets[k][t]) = cacheVal[t]
    /\ InPass =>
          \A t \in Tables :
              /\ LoadedPart(df[t], t) = cacheVal[t]
              /\ df[t].cols \ cacheVal[t].cols \subseteq DerivedColumns(t)
              /\ \A i \in 1..Len(df[t].rows) : DOMAIN df[t].rows[i] = df[t].cols
    /\ (InPass /\ "SleepHours" \in df["sleep_day"].cols) =>
          (pc = "done" /\ menuSel = "Sleep Analysis")
    /\ (InPass /\ "Hour" \in df["hourly_steps"].cols) =>
          (pc = "done" /\ menuSel = "Hourly Patterns")

(* C10 as stated: the frame property, and the SleepHours column written   *)
(* by a Sleep Analysis pass is present in the Sleep Day table of later    *)
(* passes.                                                                *)
C10_SleepHoursPersists ==
    /\ C10_Frame
    /\ (InPass /\ sleepWritten) => "SleepHours" \in df["sleep_day"].cols

(* C10, amended: the frame property, and the SleepHours column exists     *)
(* only in the table of the pass that wrote it: the Sleep Day table a     *)
(* later pass receives from load_data does not have it, and has it again  *)
(* only once that pass, being a Sleep Analysis pass, has written it.      *)
C10_DerivedColumnsArePerPass ==
    /\ C10_Frame
    /\ InPass =>
          ("SleepHours" \in df["sleep_day"].cols
             <=> (pc = "done" /\ menuSel = "Sleep Analysis"))
    /\ InPass =>
          ("Hour" \in df["hourly_steps"].cols
             <=> (pc = "done" /\ menuSel = "Hourly Patterns"))

(* after a Sleep Analysis pass, a later pass holds a table without SleepHours *)
C10_Witness ==
    /\ sleepWritten
    /\ pc = "done"
    /\ menuSel = "Hourly Patterns"
    /\ "Hour" \in df["hourly_steps"].cols
    /\ "SleepHours" \notin df["sleep_day"].cols
    /\ Len(df["sleep_day"].rows) >= 1

=============================================================================
